---- MODULE Spec2Model ----
(***************************************************************************)
(* Account lifecycle and token state machine of the jixify backend.        *)
(*                                                                         *)
(* The repository holds two servers with the same routes: src/index.js     *)
(* (app "root") and src/api/index.js (app "api"); a behaviour is a run of  *)
(* one of them.  A request is one process; it suspends at every await and  *)
(* at every callback boundary (bcrypt, db.query, transporter.sendMail,     *)
(* openai), and other requests run in between.  The store executes each    *)
(* statement atomically.                                                   *)
(*                                                                         *)
(* Library behaviour the handlers rely on is modelled as the libraries     *)
(* compute it: jsonwebtoken keeps iat/exp in whole seconds and rejects a   *)
(* token once floor(now/1000) >= exp; mysql2 connects with FOUND_ROWS, so  *)
(* affectedRows of an UPDATE counts the rows matched; MySQL UNIQUE admits  *)
(* any number of NULLs.  The configuration (JWT_SECRET, BASE_URL_PROD,     *)
(* EMAIL_USER) is taken to be set.                                         *)
(***************************************************************************)
EXTENDS Integers, Sequences, FiniteSets, TLC

\* app:      the server that runs, "root" (src/index.js) or "api"
\* users:    users_tbl, the rows in insertion order
\* reqs:     the requests received, each with its body, its position in
\*           the handler (pc), its locals and its answer
\* mails:    the messages handed to transporter.sendMail
\* now:      Date.now(), in milliseconds
\* ticks, failures: how often the clock has advanced and a collaborator
\*           has failed (bounded below)
VARIABLES app, users, reqs, mails, now, ticks, failures

vars == <<app, users, reqs, mails, now, ticks, failures>>

\* ------------------------------------------------------------------ bounds
MaxReqs == 3
MaxInFlight == 2
MaxTicks == 1
MaxFailures == 1
MaxIssueMs == 1001

\* --------------------------------------------------------------- constants
MsPerSecond == 1000
HourSeconds == 3600
DaySeconds == 86400
Created == 201
OK == 200
BadRequest == 400
Unauthorized == 401
Forbidden == 403
NotFound == 404
ServerError == 500

Apps == {"root", "api"}
Undefined == "undefined"
Null == "null"
Emails == {"a@x.com", "b@x.com"}
Usernames == {"ann"}
Passwords == {"secret", "wrong"}
Salts == {"s1"}
JWT_SECRET == "JWT_SECRET"
TickSteps == {HourSeconds * MsPerSecond, DaySeconds * MsPerSecond}

\* JavaScript's !x for the values a body field takes here.
Falsy(x) == x \in {Undefined, ""}

\* ------------------------------------------------------------------ bcrypt
\* bcrypt.hash(password, 10): a salted digest.
BcryptHash(password, salt) ==
    [alg |-> "bcrypt", cost |-> 10, salt |-> salt, of |-> password]

\* Faulty variant: a compare that accepts every password.
BcryptCompareAny(password, digest) == digest.alg = "bcrypt"

\* bcrypt.compare(password, digest): re-hash with the digest's salt.
BcryptCompare(password, digest) ==
    BcryptHash(password, digest.salt) = digest

NoDigest == [alg |-> "", cost |-> 0, salt |-> "", of |-> ""]

\* ------------------------------------------------------------ jsonwebtoken
NoClaims == [id |-> 0, email |-> Undefined, iat |-> 0, exp |-> 0]
HS256(key, payload) == [key |-> key, over |-> payload]
NoSig == HS256("", NoClaims)
\* parts: the number of dot-separated segments of the token string
\* (0: no token at all, 3: header.payload.signature).
NoToken == [parts |-> 0, payload |-> NoClaims, sig |-> NoSig]
Garbage == [parts |-> 1, payload |-> NoClaims, sig |-> NoSig]

\* Faulty variant: the expires argument is ignored, signJwt's default "1h"
\* applies to every token.
ExpiresInDefault(expires) == HourSeconds

\* The ms library's reading of the expiresIn strings the handlers pass.
ExpiresInSeconds(expires) ==
    CASE expires = "1h" -> HourSeconds
      [] expires = "1d" -> DaySeconds

\* jwt.sign(payload, secret, {expiresIn}) at instant t (milliseconds).
JwtSign(claims, secret, expires, t) ==
    LET iat == t \div MsPerSecond
        payload == [id |-> claims.id, email |-> claims.email,
                    iat |-> iat, exp |-> iat + ExpiresInSeconds(expires)]
    IN [parts |-> 3, payload |-> payload, sig |-> HS256(secret, payload)]

\* Faulty variant: the clock test with > in place of >=.
JwtExpiredStrict(payload, t) == (t \div MsPerSecond) > payload.exp

\* The clock test of jwt.verify: clockTimestamp >= payload.exp.
JwtExpired(payload, t) == (t \div MsPerSecond) >= payload.exp

\* jwt.verify(token, secret) at instant t: the error name, or "" on success.
JwtVerifyErr(token, secret, t) ==
    CASE token.parts # 3 -> "JsonWebTokenError: jwt malformed"
      [] token.sig # HS256(secret, token.payload) ->
             "JsonWebTokenError: invalid signature"
      [] JwtExpired(token.payload, t) -> "TokenExpiredError"
      [] OTHER -> ""

\* signJwt(payload, expires = "1h")
signJwt(claims, expires, t) == JwtSign(claims, JWT_SECRET, expires, t)

\* ------------------------------------------------------------------- store
\* users_tbl: rows in insertion order; id is AUTO_INCREMENT.
NewRow(id, username, email, password) ==
    [id |-> id, username |-> username, email |-> email,
     password |-> password, verified |-> FALSE]


\* Faulty variant: one UNIQUE key over the pair (username, email).
DupEntryPairKey(rows, username, email) ==
    \E i \in 1..Len(rows) :
        rows[i].email = email /\ rows[i].username = username

\* The UNIQUE keys on username and on email; NULL never collides.
DupEntry(rows, username, email) ==
    \E i \in 1..Len(rows) :
        \/ rows[i].email = email
        \/ username # Null /\ rows[i].username = username

\* INSERT INTO users_tbl (username, email, password) VALUES (?, ?, ?)
InsertRow(rows, username, email, password) ==
    Append(rows, NewRow(Len(rows) + 1, username, email, password))

\* SELECT * FROM users_tbl WHERE email = ?
SelectByEmail(rows, email) ==
    SelectSeq(rows, LAMBDA row : row.email = email)

\* Faulty variant: SET verified = NOT verified.
MarkVerifiedToggle(rows, email) ==
    [i \in 1..Len(rows) |->
        IF rows[i].email = email
        THEN [rows[i] EXCEPT !.verified = ~rows[i].verified]
        ELSE rows[i]]

\* Faulty variant: the UPDATE without its WHERE clause.
MarkVerifiedAll(rows, email) ==
    [i \in 1..Len(rows) |-> [rows[i] EXCEPT !.verified = TRUE]]

\* UPDATE users_tbl SET verified = true WHERE email = ?
MarkVerified(rows, email) ==
    [i \in 1..Len(rows) |->
        IF rows[i].email = email THEN [rows[i] EXCEPT !.verified = TRUE]
        ELSE rows[i]]

\* Faulty variant: affectedRows counting only the rows whose value changed.
ChangedRows(rows, email) ==
    Len(SelectSeq(rows, LAMBDA row : row.email = email /\ ~row.verified))

\* result.affectedRows of that UPDATE (FOUND_ROWS: the rows matched).
AffectedRows(rows, email) == Len(SelectByEmail(rows, email))

\* ---------------------------------------------------------------- requests
NoResp == [status |-> 0, body |-> "", token |-> NoToken]
Resp(status, body) == [status |-> status, body |-> body, token |-> NoToken]

NewReq(op) ==
    [op |-> op, pc |-> "new",
     username |-> Undefined, email |-> Undefined, password |-> Undefined,
     token |-> NoToken, message |-> Undefined,
     hashed |-> NoDigest, dberr |-> "", rows |-> <<>>, affected |-> 0,
     user |-> NoClaims, resp |-> NoResp]

Respond(r, status, body) ==
    [reqs EXCEPT ![r].pc = "done", ![r].resp = Resp(status, body)]

\* Requests still waiting for a collaborator ("fault": dropped by an
\* unhandled rejection, never answered).
InFlight == {r \in 1..Len(reqs) : reqs[r].pc \notin {"done", "fault"}}

\* A new request is accepted while the bounds leave room for it.
CanAccept == Len(reqs) < MaxReqs /\ Cardinality(InFlight) < MaxInFlight

\* A collaborator (hasher, store, mail transport, completion proxy) may fail.
CanFail == failures < MaxFailures

\* One server process, src/index.js ("root") or src/api/index.js ("api"),
\* over an empty users_tbl.
Init ==
    /\ app \in Apps
    /\ users = <<>>
    /\ reqs = <<>>
    /\ mails = <<>>
    /\ now = 0
    /\ ticks = 0
    /\ failures = 0

\* Date.now() advances between any two steps.
Tick ==
    /\ ticks < MaxTicks
    /\ \E d \in TickSteps : now' = now + d
    /\ ticks' = ticks + 1
    /\ UNCHANGED <<app, users, reqs, mails, failures>>

\* ---------------------------------------------------------------- Register
\* The required-field test of POST /register: root needs email and password,
\* api needs username as well.
RegisterMissing(username, email, password) ==
    IF app = "root" THEN Falsy(email) \/ Falsy(password)
    ELSE Falsy(username) \/ Falsy(email) \/ Falsy(password)

RegisterMissingBody ==
    IF app = "root" THEN "Email and password required" ELSE "Missing fields"

\* The request bodies tried: every valid one, and one with each field missing.
RegisterInputs ==
    ((Usernames \cup {Undefined}) \X Emails \X {"secret"})
        \cup {<<"ann", Undefined, "secret">>, <<"ann", "a@x.com", Undefined>>}

\* POST /register up to its first await.
RegisterStart ==
    /\ CanAccept
    /\ \E in \in RegisterInputs :
        LET req == [NewReq("register") EXCEPT
                        !.username = in[1], !.email = in[2],
                        !.password = in[3]]
        IN reqs' = Append(reqs,
              IF RegisterMissing(in[1], in[2], in[3])
              THEN [req EXCEPT !.pc = "done",
                       !.resp = Resp(BadRequest, RegisterMissingBody)]
              ELSE [req EXCEPT !.pc = "hash"])
    /\ UNCHANGED <<app, users, mails, now, ticks, failures>>

\* await bcrypt.hash(password, 10) settles; db.query sends the INSERT.
RegisterHashed ==
    \E r \in 1..Len(reqs) :
        /\ reqs[r].op = "register" /\ reqs[r].pc = "hash"
        /\ \E salt \in Salts :
              reqs' = [reqs EXCEPT ![r].pc = "query",
                          ![r].hashed = BcryptHash(reqs[r].password, salt)]
        /\ UNCHANGED <<app, users, mails, now, ticks, failures>>

\* bcrypt.hash rejects: the catch block answers.
RegisterHashFailed ==
    \E r \in 1..Len(reqs) :
        /\ reqs[r].op = "register" /\ reqs[r].pc = "hash"
        /\ CanFail
        /\ failures' = failures + 1
        /\ reqs' = Respond(r, ServerError,
                      IF app = "root" THEN "Server error" ELSE "error.message")
        /\ UNCHANGED <<app, users, mails, now, ticks>>

\* The value bound to the username column: root passes username || null.
UsernameParam(req) ==
    IF app = "root" /\ Falsy(req.username) THEN Null ELSE req.username

\* The store executes the INSERT.
DbInsert ==
    \E r \in 1..Len(reqs) :
        /\ reqs[r].op = "register" /\ reqs[r].pc = "query"
        /\ IF DupEntry(users, UsernameParam(reqs[r]), reqs[r].email)
           THEN /\ reqs' = [reqs EXCEPT ![r].pc = "callback",
                                        ![r].dberr = "ER_DUP_ENTRY"]
                /\ users' = users
           ELSE /\ reqs' = [reqs EXCEPT ![r].pc = "callback"]
                /\ users' = InsertRow(users, UsernameParam(reqs[r]),
                                      reqs[r].email, reqs[r].hashed)
        /\ UNCHANGED <<app, mails, now, ticks, failures>>

\* Any statement can fail in the persistence layer instead.
DbFail ==
    \E r \in 1..Len(reqs) :
        /\ reqs[r].pc = "query"
        /\ CanFail
        /\ failures' = failures + 1
        /\ reqs' = [reqs EXCEPT ![r].pc = "callback", ![r].dberr = "ER_OTHER"]
        /\ UNCHANGED <<app, users, mails, now, ticks>>

\* Faulty variant: the err.code test left out.
InsertErrorRespNoDupTest(dberr) == Resp(ServerError, "Database error")

\* The answer of the INSERT callback to a store error.
InsertErrorResp(dberr) ==
    IF app = "api" THEN Resp(BadRequest, dberr)
    ELSE IF dberr = "ER_DUP_ENTRY"
         THEN Resp(BadRequest, "User or email already exists")
         ELSE Resp(ServerError, "Database error")

\* transporter.sendMail({to, html: link with the token}, ...): the message,
\* with the Date header the transport stamps on it.
Mail(r, to, token, t) ==
    [req |-> r, to |-> to, token |-> token, date |-> t, status |-> "pending"]

\* The INSERT callback: answer an error, or mint the verification token and
\* hand the mail to the transport (api answers at once, root waits for the
\* transport's callback).
RegisterInsertCallback ==
    \E r \in 1..Len(reqs) :
        /\ reqs[r].op = "register" /\ reqs[r].pc = "callback"
        /\ IF reqs[r].dberr # ""
           THEN /\ reqs' = [reqs EXCEPT ![r].pc = "done",
                               ![r].resp = InsertErrorResp(reqs[r].dberr)]
                /\ mails' = mails
           ELSE /\ mails' = Append(mails,
                     Mail(r, reqs[r].email,
                          signJwt([id |-> 0, email |-> reqs[r].email],
                                  "1d", now),
                          now))
                /\ reqs' = IF app = "root"
                           THEN [reqs EXCEPT ![r].pc = "mail"]
                           ELSE Respond(r, OK,
                                   "Registered! Check your email to verify.")
        /\ UNCHANGED <<app, users, now, ticks, failures>>

\* What the settled delivery does to the request: root's sendMail callback
\* answers it, api passed no callback and has answered already.
MailCallback(i, mailErr) ==
    IF app = "root"
    THEN IF mailErr
         THEN Respond(mails[i].req, ServerError,
                      "Failed to send verification email")
         ELSE Respond(mails[i].req, Created,
                      "Registered. Check your email to verify.")
    ELSE reqs

\* The transport delivers the mail.
MailSent ==
    \E i \in 1..Len(mails) :
        /\ mails[i].status = "pending"
        /\ mails' = [mails EXCEPT ![i].status = "sent"]
        /\ reqs' = MailCallback(i, FALSE)
        /\ UNCHANGED <<app, users, now, ticks, failures>>

\* The transport fails to deliver it.
MailFailed ==
    \E i \in 1..Len(mails) :
        /\ mails[i].status = "pending"
        /\ CanFail
        /\ failures' = failures + 1
        /\ mails' = [mails EXCEPT ![i].status = "failed"]
        /\ reqs' = MailCallback(i, TRUE)
        /\ UNCHANGED <<app, users, now, ticks>>

\* ------------------------------------------------------------ client side
\* Tokens a client holds: from delivered mails and from login answers.
KnownTokens ==
    {mails[i].token : i \in {j \in 1..Len(mails) : mails[j].status = "sent"}}
        \cup {reqs[r].resp.token :
                 r \in {q \in 1..Len(reqs) : reqs[q].resp.token.parts = 3}}

\* A held token with its email claim rewritten and its signature kept.
Tamper(token) ==
    [token EXCEPT !.payload.email =
        IF token.payload.email = "a@x.com" THEN "b@x.com" ELSE "a@x.com"]

PresentedTokens ==
    KnownTokens \cup {Tamper(t) : t \in KnownTokens} \cup {Garbage}

\* ------------------------------------------------------------- VerifyEmail
VerifyErrorBody ==
    IF app = "root" THEN "Invalid or expired token" ELSE "Invalid token"

\* Faulty variant: the token is decoded without jwt.verify's checks.
VerifyRequestDecodeOnly(token, t) ==
    LET req == [NewReq("verify") EXCEPT !.token = token]
    IN IF token = NoToken
       THEN [req EXCEPT !.pc = "done",
                !.resp = Resp(BadRequest, "Token missing")]
       ELSE [req EXCEPT !.pc = "query", !.user = token.payload]

\* GET /verify-email?token=... at instant t: the token checks, then the
\* UPDATE is sent.
VerifyRequest(token, t) ==
    LET req == [NewReq("verify") EXCEPT !.token = token]
    IN IF token = NoToken
       THEN [req EXCEPT !.pc = "done",
                !.resp = Resp(BadRequest, "Token missing")]
       ELSE IF JwtVerifyErr(token, JWT_SECRET, t) # ""
       THEN [req EXCEPT !.pc = "done",
                !.resp = Resp(BadRequest, VerifyErrorBody)]
       ELSE [req EXCEPT !.pc = "query", !.user = token.payload]

VerifyStart ==
    /\ CanAccept
    /\ \E token \in PresentedTokens \cup {NoToken} :
          reqs' = Append(reqs, VerifyRequest(token, now))
    /\ UNCHANGED <<app, users, mails, now, ticks, failures>>

\* The store executes the UPDATE.
DbUpdate ==
    \E r \in 1..Len(reqs) :
        /\ reqs[r].op = "verify" /\ reqs[r].pc = "query"
        /\ users' = MarkVerified(users, reqs[r].user.email)
        /\ reqs' = [reqs EXCEPT ![r].pc = "callback",
                       ![r].affected = AffectedRows(users, reqs[r].user.email)]
        /\ UNCHANGED <<app, mails, now, ticks, failures>>

\* The answer of the UPDATE callback.
VerifyResp(dberr, affected) ==
    IF dberr # "" THEN Resp(ServerError, "Database error")
    ELSE IF app = "root" /\ affected = 0 THEN Resp(NotFound, "Email not found")
    ELSE Resp(OK, IF app = "root" THEN "Email Verified"
                  ELSE "Email verified! You can now log in.")

VerifyCallback ==
    \E r \in 1..Len(reqs) :
        /\ reqs[r].op = "verify" /\ reqs[r].pc = "callback"
        /\ reqs' = [reqs EXCEPT ![r].pc = "done",
                       ![r].resp = VerifyResp(reqs[r].dberr, reqs[r].affected)]
        /\ UNCHANGED <<app, users, mails, now, ticks, failures>>

\* ------------------------------------------------------------------- Login
LoginMissingBody ==
    IF app = "root" THEN "Email and password required"
    ELSE "Email and password are required"

LoginInputs ==
    (Emails \X Passwords)
        \cup {<<Undefined, "secret">>, <<"a@x.com", Undefined>>}

\* POST /login: the required-field test, then the SELECT is sent.
LoginStart ==
    /\ CanAccept
    /\ \E in \in LoginInputs :
        LET req == [NewReq("login") EXCEPT !.email = in[1], !.password = in[2]]
        IN reqs' = Append(reqs,
              IF Falsy(in[1]) \/ Falsy(in[2])
              THEN [req EXCEPT !.pc = "done",
                       !.resp = Resp(BadRequest, LoginMissingBody)]
              ELSE [req EXCEPT !.pc = "query"])
    /\ UNCHANGED <<app, users, mails, now, ticks, failures>>

\* The store executes the SELECT.
DbSelect ==
    \E r \in 1..Len(reqs) :
        /\ reqs[r].op = "login" /\ reqs[r].pc = "query"
        /\ reqs' = [reqs EXCEPT ![r].pc = "callback",
                       ![r].rows = SelectByEmail(users, reqs[r].email)]
        /\ UNCHANGED <<app, users, mails, now, ticks, failures>>

\* Faulty variant: the verified test left out.
NotVerifiedSkipped(user) == FALSE

\* if (!user.verified)
NotVerified(user) == ~user.verified

\* The answer to an unverified account: root 403, api 400.
UnverifiedResp ==
    Resp(IF app = "root" THEN Forbidden ELSE BadRequest, "Email not verified")

\* The answers to an email the SELECT did not find and to a password that
\* does not match.
UserNotFoundResp == Resp(BadRequest, "User not found")
InvalidCredentialsResp == Resp(BadRequest, "Invalid credentials")

\* The SELECT callback up to await bcrypt.compare.
LoginCallback ==
    \E r \in 1..Len(reqs) :
        /\ reqs[r].op = "login" /\ reqs[r].pc = "callback"
        /\ reqs' =
             IF reqs[r].dberr # ""
             THEN Respond(r, ServerError,
                     IF app = "root" THEN "Database error" ELSE reqs[r].dberr)
             ELSE IF Len(reqs[r].rows) = 0
             THEN [reqs EXCEPT ![r].pc = "done", ![r].resp = UserNotFoundResp]
             ELSE IF NotVerified(reqs[r].rows[1])
             THEN [reqs EXCEPT ![r].pc = "done", ![r].resp = UnverifiedResp]
             ELSE [reqs EXCEPT ![r].pc = "compare"]
        /\ UNCHANGED <<app, users, mails, now, ticks, failures>>

\* await bcrypt.compare settles: invalid credentials, or the session token.
LoginCompared ==
    \E r \in 1..Len(reqs) :
        /\ reqs[r].op = "login" /\ reqs[r].pc = "compare"
        /\ LET user == reqs[r].rows[1]
           IN reqs' =
                IF ~BcryptCompare(reqs[r].password, user.password)
                THEN [reqs EXCEPT ![r].pc = "done",
                         ![r].resp = InvalidCredentialsResp]
                ELSE [reqs EXCEPT ![r].pc = "done",
                         ![r].resp = [status |-> OK, body |-> "token",
                                      token |-> signJwt([id |-> user.id,
                                                         email |-> user.email],
                                                        "1h", now)]]
        /\ UNCHANGED <<app, users, mails, now, ticks, failures>>

\* await bcrypt.compare rejects (a password that is no string, resource
\* exhaustion): the async SELECT callback has no try/catch, the rejection is
\* unhandled and the request is never answered.
LoginCompareFailed ==
    \E r \in 1..Len(reqs) :
        /\ reqs[r].op = "login" /\ reqs[r].pc = "compare"
        /\ CanFail
        /\ failures' = failures + 1
        /\ reqs' = [reqs EXCEPT ![r].pc = "fault"]
        /\ UNCHANGED <<app, users, mails, now, ticks>>

\* -------------------------------------------------------------------- Chat
\* The Authorization header: absent, or parts space-separated words of
\* which the second is the token.
NoHeader == [present |-> FALSE, parts |-> 0, token |-> NoToken]
SchemeOnly == [present |-> TRUE, parts |-> 1, token |-> NoToken]
Bearer(token) == [present |-> TRUE, parts |-> 2, token |-> token]

\* authHeader && authHeader.split(" ")[1]   (|| req.cookies?.token: no
\* cookie parser is installed, so that is undefined)
TokenFromHeader(h) ==
    IF h.present /\ h.parts >= 2 THEN h.token ELSE NoToken

\* Faulty variant: only the presence of a token is tested.
AuthRejectPresenceOnly(token, t) ==
    IF token = NoToken THEN Resp(Unauthorized, "Access denied") ELSE NoResp

\* authenticateToken: the answer that stops the request, or NoResp for next().
AuthReject(token, t) ==
    IF token = NoToken
    THEN Resp(Unauthorized,
              IF app = "root" THEN "Access denied" ELSE "Unauthorized")
    ELSE IF JwtVerifyErr(token, JWT_SECRET, t) # ""
    THEN Resp(Forbidden,
              IF app = "root" THEN "Invalid token" ELSE "Forbidden")
    ELSE NoResp

\* POST /chat: authenticateToken, then the handler up to its await.
ChatStart ==
    /\ CanAccept
    /\ \E h \in {NoHeader, SchemeOnly} \cup {Bearer(t) : t \in PresentedTokens},
          message \in {Undefined, "hi"} :
        LET token == TokenFromHeader(h)
            req == [NewReq("chat") EXCEPT !.token = token, !.message = message]
        IN reqs' = Append(reqs,
              IF AuthReject(token, now) # NoResp
              THEN [req EXCEPT !.pc = "done", !.resp = AuthReject(token, now)]
              ELSE IF Falsy(message)
              THEN [req EXCEPT !.pc = "done", !.user = token.payload,
                       !.resp = Resp(BadRequest, "Message is required")]
              ELSE [req EXCEPT !.pc = "openai", !.user = token.payload])
    /\ UNCHANGED <<app, users, mails, now, ticks, failures>>

\* The completion proxy answers.
ChatReplied ==
    \E r \in 1..Len(reqs) :
        /\ reqs[r].op = "chat" /\ reqs[r].pc = "openai"
        /\ reqs' = Respond(r, OK, "reply")
        /\ UNCHANGED <<app, users, mails, now, ticks, failures>>

\* The completion proxy throws: the catch block answers.
ChatFailed ==
    \E r \in 1..Len(reqs) :
        /\ reqs[r].op = "chat" /\ reqs[r].pc = "openai"
        /\ CanFail
        /\ failures' = failures + 1
        /\ reqs' = Respond(r, ServerError,
                      IF app = "root" THEN "AI processing error"
                      ELSE "err.message")
        /\ UNCHANGED <<app, users, mails, now, ticks>>

Next ==
    \/ Tick
    \/ RegisterStart
    \/ VerifyStart
    \/ LoginStart
    \/ ChatStart
    \/ RegisterHashed
    \/ RegisterHashFailed
    \/ DbInsert
    \/ DbUpdate
    \/ DbSelect
    \/ DbFail
    \/ RegisterInsertCallback
    \/ VerifyCallback
    \/ LoginCallback
    \/ LoginCompared
    \/ LoginCompareFailed
    \/ ChatReplied
    \/ ChatFailed
    \/ MailSent
    \/ MailFailed

Spec == Init /\ [][Next]_vars

\* ------------------------------------------------- token lifetime (SpecTok)
\* One token minted at any millisecond, then presented at instants around
\* its time to live.
ProbeOffsets == {0 - MsPerSecond, 0 - 1, 0, 1}

TokInit ==
    /\ app \in Apps
    /\ users = <<>>
    /\ reqs = <<>>
    /\ mails = <<>>
    /\ now \in 0..MaxIssueMs
    /\ ticks = 0
    /\ failures = 0

\* signJwt(payload, expires) at the current instant; the mail is delivered.
TokMint ==
    /\ mails = <<>>
    /\ \E expires \in {"1h", "1d"} :
          mails' = <<[Mail(0, "a@x.com",
                           signJwt([id |-> 0, email |-> "a@x.com"],
                                   expires, now), now)
                      EXCEPT !.status = "sent"]>>
    /\ UNCHANGED <<app, users, reqs, now, ticks, failures>>

\* The time to live the token was minted with, in milliseconds.
TtlMs(token) == (token.payload.exp - token.payload.iat) * MsPerSecond

\* The clock reaches ttl + d after the issuance.
TokElapse ==
    /\ mails # <<>> /\ ticks = 0
    /\ \E d \in ProbeOffsets :
          now' = mails[1].date + TtlMs(mails[1].token) + d
    /\ ticks' = 1
    /\ UNCHANGED <<app, users, reqs, mails, failures>>

\* The token is presented to GET /verify-email.
TokValidate ==
    /\ mails # <<>> /\ ticks = 1 /\ reqs = <<>>
    /\ reqs' = <<VerifyRequest(mails[1].token, now)>>
    /\ UNCHANGED <<app, users, mails, now, ticks, failures>>

TokNext == TokMint \/ TokElapse \/ TokValidate

SpecTok == TokInit /\ [][TokNext]_vars

\* ================================================================== claims
\* Helpers of the claims' formulas.
ReqIds == 1..Len(reqs)
RowOf(email) == {i \in 1..Len(users) : users[i].email = email}
MailsOf(r) == {i \in 1..Len(mails) : mails[i].req = r}
\* Time since the probed token was issued (SpecTok).
Elapsed == now - mails[1].date
Validated(req) == req.pc = "query" /\ req.user = req.token.payload
RejectedExpired(req) ==
    /\ req.pc = "done" /\ req.resp.status = BadRequest
    /\ JwtVerifyErr(req.token, JWT_SECRET, now) = "TokenExpiredError"

C1_VerifiedMonotone ==
    [][/\ Len(users') >= Len(users)
       /\ \A i \in 1..Len(users') :
             IF i <= Len(users)
             THEN /\ users'[i].id = users[i].id
                  /\ users[i].verified => users'[i].verified
             ELSE ~users'[i].verified]_vars

\* C1 witness: an account has been verified and a second VerifyEmail for the
\* same address has run its UPDATE after that.
C1_Witness ==
    \E r, q \in ReqIds :
        /\ r # q
        /\ reqs[r].op = "verify" /\ reqs[q].op = "verify"
        /\ reqs[r].pc = "done" /\ reqs[q].pc = "done"
        /\ reqs[r].resp.status = OK /\ reqs[q].resp.status = OK
        /\ reqs[r].user.email = reqs[q].user.email
        /\ \E i \in RowOf(reqs[r].user.email) : users[i].verified

\* C2: the store never holds two accounts with the same email, nor two with
\* the same non-null username.
C2_UniqueKeys ==
    \A i, j \in 1..Len(users) :
        i # j =>
            /\ users[i].email # users[j].email
            /\ users[i].username # Null =>
                   users[i].username # users[j].username

\* C2 witness: two Register requests for one email ran concurrently, the
\* later arrival inserted first and the earlier one hit the unique key,
\* while an account with a null username coexists with another one.
C2_Witness ==
    /\ \E r, q \in ReqIds :
          /\ r < q
          /\ reqs[r].op = "register" /\ reqs[q].op = "register"
          /\ reqs[r].email = reqs[q].email
          /\ reqs[r].dberr = "ER_DUP_ENTRY"
          /\ reqs[q].pc \in {"callback", "mail", "done"} /\ reqs[q].dberr = ""
          /\ reqs[q].hashed # NoDigest
    /\ \E i, j \in 1..Len(users) :
          i # j /\ users[i].username = Null /\ users[j].username = Null

\* C3: a login answer carries a session token only when the row the SELECT
\* returned had verified = true (and the store's account still has).
C3_TokenOnlyIfVerified ==
    \A r \in ReqIds :
        reqs[r].op = "login" /\ reqs[r].resp.token # NoToken =>
            /\ Len(reqs[r].rows) > 0
            /\ reqs[r].rows[1].verified
            /\ reqs[r].rows[1].email = reqs[r].email
            /\ \E i \in RowOf(reqs[r].email) : users[i].verified

\* C3 witness: a Login has returned a session token.
C3_Witness ==
    \E r \in ReqIds :
        /\ reqs[r].op = "login" /\ reqs[r].pc = "done"
        /\ reqs[r].resp.status = OK
        /\ reqs[r].resp.token.parts = 3

Present(x) == x \notin {Undefined, ""}
\* Every token the server has minted: in a mail, or in a login answer.
Minted ==
    {mails[i].token : i \in 1..Len(mails)}
        \cup {reqs[r].resp.token :
                 r \in {q \in ReqIds : reqs[q].resp.token.parts = 3}}

\* C4: every Register with email and password present gets past the field
\* validation; once its INSERT has succeeded the account exists with
\* verified = false, and exactly one mail is attempted, to the registered
\* email, with a 1-day token whose email claim is the registered email; no
\* mail of the request exists before the INSERT has succeeded.
C4_RegisterCreatesAndMails ==
    \A r \in ReqIds :
        reqs[r].op = "register" /\ Present(reqs[r].email)
            /\ Present(reqs[r].password) =>
          /\ reqs[r].resp # Resp(BadRequest, RegisterMissingBody)
          /\ reqs[r].pc \in {"hash", "query"} \/ reqs[r].dberr # "" =>
                MailsOf(r) = {}
          /\ reqs[r].pc = "callback" /\ reqs[r].dberr = "" =>
                /\ MailsOf(r) = {}
                /\ \E i \in RowOf(reqs[r].email) :
                      ~users[i].verified /\ users[i].password = reqs[r].hashed
          /\ reqs[r].pc \in {"mail", "done"} /\ reqs[r].dberr = ""
                /\ reqs[r].hashed # NoDigest =>
                /\ Cardinality(MailsOf(r)) = 1
                /\ RowOf(reqs[r].email) # {}
                /\ \A i \in MailsOf(r) :
                      /\ mails[i].to = reqs[r].email
                      /\ mails[i].token.payload.email = reqs[r].email
                      /\ mails[i].token.sig =
                             HS256(JWT_SECRET, mails[i].token.payload)
                      /\ TtlMs(mails[i].token) = DaySeconds * MsPerSecond

\* C5: a Register whose INSERT meets an account with the same email changes
\* no account and gets an error from the store; after the duplicate-key
\* error the request mints no token, sends no mail and is answered with the
\* conflict category (400).
C5_DuplicateConflict ==
    [][\A r \in ReqIds :
          reqs[r].op = "register" =>
            /\ reqs[r].pc = "query" /\ reqs'[r].pc = "callback"
                  /\ RowOf(reqs[r].email) # {} =>
                  /\ users' = users
                  /\ reqs'[r].dberr \in {"ER_DUP_ENTRY", "ER_OTHER"}
            /\ reqs'[r].dberr = "ER_DUP_ENTRY" =>
                  /\ reqs'[r].pc \in {"callback", "done"}
                  /\ \A i \in 1..Len(mails') : mails'[i].req # r
                  /\ reqs'[r].pc = "done" =>
                        /\ reqs'[r].resp.status = BadRequest
                        /\ reqs'[r].resp.token = NoToken]_vars

\* C5 witness: a second Register for a registered email has been answered
\* 400 after the duplicate-key error, and the first account is as created.
C5_Witness ==
    \E r, q \in ReqIds :
        /\ r < q
        /\ reqs[r].op = "register" /\ reqs[q].op = "register"
        /\ reqs[r].email = reqs[q].email
        /\ reqs[r].pc = "done" /\ reqs[r].dberr = ""
        /\ reqs[q].pc = "done" /\ reqs[q].dberr = "ER_DUP_ENTRY"
        /\ reqs[q].resp.status = BadRequest
        /\ MailsOf(q) = {}
        /\ \E i \in RowOf(reqs[r].email) :
              /\ users[i].password = reqs[r].hashed
              /\ users[i].username = UsernameParam(reqs[r])

\* C6: once the UPDATE of a VerifyEmail whose token validated has run, the
\* account of the token's email is verified, and the request (a first call
\* or a repeated one) is answered with success, never "Email not found".
C6_VerifyIdempotent ==
    \A r \in ReqIds :
        reqs[r].op = "verify" /\ reqs[r].user # NoClaims
            /\ reqs[r].pc \in {"callback", "done"} /\ reqs[r].dberr = "" =>
          /\ \E i \in RowOf(reqs[r].user.email) : users[i].verified
          /\ reqs[r].pc = "done" => reqs[r].resp.status = OK

\* C6 witness: src/index.js has answered two VerifyEmail calls with the same
\* token, both with success.
C6_Witness ==
    /\ app = "root"
    /\ \E r, q \in ReqIds :
          /\ r < q
          /\ reqs[r].op = "verify" /\ reqs[q].op = "verify"
          /\ reqs[r].token = reqs[q].token
          /\ reqs[r].pc = "done" /\ reqs[r].resp.status = OK
          /\ reqs[q].pc = "done" /\ reqs[q].resp.status = OK
          /\ reqs[q].affected = 1

\* C8: a Login that finds the account unverified is answered with the
\* forbidden (403) unverified error, not the invalid-credentials one, and
\* with no token, whatever the password.
C8_UnverifiedForbidden ==
    \A r \in ReqIds :
        reqs[r].op = "login" /\ reqs[r].pc = "done" /\ reqs[r].dberr = ""
            /\ Len(reqs[r].rows) > 0 /\ ~reqs[r].rows[1].verified =>
          /\ reqs[r].resp.status = Forbidden
          /\ reqs[r].resp.body = "Email not verified"
          /\ reqs[r].resp.token = NoToken

\* C9: when the delivery of a Register's mail has failed, the request is
\* answered with a server error, and its account is in the store, still
\* unverified.
C9_DeliveryFailureReported ==
    \A i \in 1..Len(mails) :
        mails[i].status = "failed" =>
          /\ reqs[mails[i].req].pc = "done"
          /\ reqs[mails[i].req].resp.status = ServerError
          /\ \E j \in RowOf(mails[i].to) : ~users[j].verified

\* C10: a /chat request reaches the handler exactly when its bearer token
\* carries the server's signature and is unexpired at that instant; then
\* req.user is the payload of a token the server minted; otherwise it is
\* answered 401 (no token) or 403 and never reaches the handler.
C10_AuthGate ==
    [][Len(reqs') > Len(reqs) /\ reqs'[Len(reqs')].op = "chat" =>
          LET q == reqs'[Len(reqs')]
              reached == \/ q.pc = "openai"
                         \/ q.pc = "done" /\ q.resp.status = BadRequest
              valid == /\ q.token.parts = 3
                       /\ q.token.sig = HS256(JWT_SECRET, q.token.payload)
                       /\ now \div MsPerSecond < q.token.payload.exp
          IN /\ reached <=> valid
             /\ reached => q.user = q.token.payload /\ q.token \in Minted
             /\ ~reached =>
                   /\ q.pc = "done" /\ q.user = NoClaims
                   /\ q.resp.status =
                        IF q.token = NoToken THEN Unauthorized ELSE Forbidden
      ]_vars

\* C10 witness: one /chat request has been served and another, with a
\* token, has been refused 403.
C10_Witness ==
    \E r, q \in ReqIds :
        /\ reqs[r].op = "chat" /\ reqs[q].op = "chat"
        /\ reqs[r].pc = "done" /\ reqs[r].resp.status = OK
        /\ reqs[r].user.email \in Emails
        /\ reqs[q].resp.status = Forbidden /\ reqs[q].token # NoToken

\* An answered Login whose SELECT had returned without error.
LookedUp(req) == /\ req.op = "login" /\ req.pc = "done"
                 /\ Present(req.email) /\ Present(req.password)
                 /\ req.dberr = ""

\* C11: a Login for an email the store does not hold, and a Login whose
\* password is not the one the found account's digest was made of, are both
\* answered with a failure and no token; an answer carries a session token
\* only when the supplied password is the one under the digest of the
\* account selected by the supplied email.
C11_LoginFailures ==
    \A r \in ReqIds :
        /\ LookedUp(reqs[r]) /\ reqs[r].rows = <<>> =>
              /\ reqs[r].resp.status \notin {0, OK, Created}
              /\ reqs[r].resp.token = NoToken
        /\ LookedUp(reqs[r]) /\ reqs[r].rows # <<>>
              /\ reqs[r].rows[1].password.of # reqs[r].password =>
              /\ reqs[r].resp.status \notin {0, OK, Created}
              /\ reqs[r].resp.token = NoToken
        /\ reqs[r].op = "login" /\ reqs[r].resp.token # NoToken =>
              /\ reqs[r].rows # <<>>
              /\ reqs[r].rows[1].email = reqs[r].email
              /\ reqs[r].rows[1].password.of = reqs[r].password
              /\ \E i \in RowOf(reqs[r].email) :
                    users[i].password = reqs[r].rows[1].password

\* C11 witness: a Login for a verified account with another password than
\* the registered one has been answered "Invalid credentials".
C11_Witness ==
    \E r \in ReqIds :
        /\ LookedUp(reqs[r])
        /\ reqs[r].rows # <<>> /\ reqs[r].rows[1].verified
        /\ reqs[r].rows[1].password.of # reqs[r].password
        /\ reqs[r].resp = InvalidCredentialsResp

\* C12 (as stated): the answer to Login(E, p) is the same whether E is not in
\* the store or E is a verified account with another password.  In the
\* latter store the answer is InvalidCredentialsResp (C11), so every Login
\* for an email the SELECT did not find is answered with that same response.
C12_NoEmailDisclosure ==
    \A r \in ReqIds :
        LookedUp(reqs[r]) /\ reqs[r].rows = <<>> =>
            reqs[r].resp = InvalidCredentialsResp

\* C13: the token a successful Login returns is signed by the server and
\* carries exactly the id and the email of the row the SELECT returned
\* (which are those of the store's account), and expires 1 hour after its
\* issuance; the token Register mails carries only the email the request
\* registered, no id, and expires 1 day after its issuance.
C13_TokenClaims ==
    /\ \A r \in ReqIds :
          reqs[r].op = "login" /\ reqs[r].resp.token # NoToken =>
              LET t == reqs[r].resp.token
              IN /\ t.parts = 3 /\ t.sig = HS256(JWT_SECRET, t.payload)
                 /\ reqs[r].rows # <<>>
                 /\ t.payload.id = reqs[r].rows[1].id /\ t.payload.id > 0
                 /\ t.payload.email = reqs[r].rows[1].email
                 /\ \E i \in RowOf(reqs[r].email) :
                       /\ users[i].id = t.payload.id
                       /\ users[i].email = t.payload.email
                 /\ t.payload.exp - t.payload.iat = HourSeconds
                 /\ t.payload.iat * MsPerSecond <= now
    /\ \A i \in 1..Len(mails) :
          LET t == mails[i].token
          IN /\ t.parts = 3 /\ t.sig = HS256(JWT_SECRET, t.payload)
             /\ t.payload.id = NoClaims.id
             /\ t.payload.email = reqs[mails[i].req].email
             /\ t.payload.email = mails[i].to
             /\ t.payload.exp - t.payload.iat = DaySeconds
             /\ t.payload.iat = mails[i].date \div MsPerSecond

\* C13 witness: a Login has returned a session token for an account whose
\* verification token was mailed by Register.
C13_Witness ==
    \E r \in ReqIds :
        /\ reqs[r].op = "login" /\ reqs[r].pc = "done"
        /\ reqs[r].resp.status = OK /\ reqs[r].resp.token.parts = 3
        /\ \E i \in 1..Len(mails) :
              /\ mails[i].to = reqs[r].email
              /\ mails[i].token.payload.email = reqs[r].resp.token.payload.email

\* A token jwt.verify must refuse at this instant: absent, not a three-part
\* token, not signed by the server over its payload, or past its expiry.
Unacceptable(token) ==
    \/ token.parts # 3
    \/ token.sig # HS256(JWT_SECRET, token.payload)
    \/ now \div MsPerSecond >= token.payload.exp

\* C14: a VerifyEmail request whose token is missing, malformed, wrongly
\* signed or expired is answered 400 at once, and its arrival leaves the
\* store and the mails as they were; once refused, the request takes no
\* further step.
C14_BadTokenRefused ==
    [][/\ Len(reqs') > Len(reqs) /\ reqs'[Len(reqs')].op = "verify"
             /\ Unacceptable(reqs'[Len(reqs')].token) =>
          LET q == reqs'[Len(reqs')]
          IN /\ q.pc = "done" /\ q.resp.status = BadRequest
             /\ q.resp.token = NoToken /\ q.user = NoClaims
             /\ users' = users /\ mails' = mails
       /\ \A r \in ReqIds :
             reqs[r].op = "verify" /\ reqs[r].pc = "done"
                /\ reqs[r].resp.status = BadRequest => reqs'[r] = reqs[r]
      ]_vars

\* C14 witness: one VerifyEmail with a mailed token past its expiry and one
\* with a token whose email claim was rewritten have both been refused,
\* and the account they name is still unverified.
C14_Witness ==
    \E r, q \in ReqIds :
        /\ reqs[r].op = "verify" /\ reqs[q].op = "verify"
        /\ reqs[r].resp.status = BadRequest
        /\ reqs[q].resp.status = BadRequest
        /\ reqs[r].token.parts = 3
        /\ reqs[r].token.sig = HS256(JWT_SECRET, reqs[r].token.payload)
        /\ now \div MsPerSecond >= reqs[r].token.payload.exp
        /\ reqs[q].token.parts = 3
        /\ reqs[q].token.sig # HS256(JWT_SECRET, reqs[q].token.payload)
        /\ \E i \in 1..Len(users) : ~users[i].verified

\* C15 (as stated): a Register is answered with the validation error exactly
\* when its email or its password is missing, and then it has hashed
\* nothing, inserted nothing, minted no token and sent no mail; a Register
\* without username passes the validation, and once its INSERT has succeeded
\* the account exists with a null username.
C15_RegisterValidation ==
    \A r \in ReqIds :
        reqs[r].op = "register" =>
          /\ reqs[r].resp = Resp(BadRequest, RegisterMissingBody) <=>
                ~Present(reqs[r].email) \/ ~Present(reqs[r].password)
          /\ reqs[r].resp = Resp(BadRequest, RegisterMissingBody) =>
                /\ reqs[r].pc = "done" /\ reqs[r].hashed = NoDigest
                /\ reqs[r].dberr = "" /\ MailsOf(r) = {}
                /\ reqs[r].resp.token = NoToken
          /\ ~Present(reqs[r].username) /\ reqs[r].dberr = ""
                /\ reqs[r].pc \in {"callback", "mail"} =>
                \E i \in RowOf(reqs[r].email) :
                    /\ users[i].username = Null
                    /\ users[i].password = reqs[r].hashed

\* C16 (as stated): the store is changed only by a successful Register and
\* a successful VerifyEmail: every account in it was inserted by a Register
\* that is not answered with an error.
C16_OnlySuccessfulRegisterAdds ==
    \A i \in 1..Len(users) :
        \E r \in ReqIds :
            /\ reqs[r].op = "register" /\ reqs[r].dberr = ""
            /\ reqs[r].email = users[i].email
            /\ reqs[r].hashed = users[i].password
            /\ reqs[r].pc = "done" => reqs[r].resp.status \in {OK, Created}

\* C16 (amended): no step of a Login or of a /chat request (its
\* authentication included), and no arrival of any request, changes the
\* store; a step that changes the store is either the successful INSERT of
\* a Register, which appends one unverified account for the request's email
\* and keeps every other row (whatever answer that Register gets later), or
\* the UPDATE of a VerifyEmail, which keeps id, username, email and digest
\* of every row and changes the verified flag only of the row whose email
\* is the token's email claim.
C16_StoreFrame ==
    [][/\ \A r \in ReqIds :
             reqs[r].op \in {"login", "chat"} /\ reqs'[r] # reqs[r] =>
                 users' = users
       /\ Len(reqs') > Len(reqs) => users' = users
       /\ users' # users =>
             \E r \in ReqIds :
                 /\ reqs[r].pc = "query" /\ reqs'[r].pc = "callback"
                 /\ reqs'[r].dberr = ""
                 /\ \/ /\ reqs[r].op = "register"
                       /\ Len(users') = Len(users) + 1
                       /\ SubSeq(users', 1, Len(users)) = users
                       /\ users'[Len(users')].email = reqs[r].email
                       /\ users'[Len(users')].password = reqs[r].hashed
                       /\ ~users'[Len(users')].verified
                    \/ /\ reqs[r].op = "verify"
                       /\ Len(users') = Len(users)
                       /\ \A i \in 1..Len(users) :
                             /\ users'[i].id = users[i].id
                             /\ users'[i].username = users[i].username
                             /\ users'[i].email = users[i].email
                             /\ users'[i].password = users[i].password
                             /\ users'[i].verified # users[i].verified =>
                                   users[i].email = reqs[r].token.payload.email
      ]_vars

\* C16 witness: with two accounts in the store, a VerifyEmail has verified
\* one of them and the other is still unverified, while the Register of an
\* account has been answered with an error after its INSERT.
C16_Witness ==
    /\ \E i, j \in 1..Len(users) : users[i].verified /\ ~users[j].verified
    /\ \E r \in ReqIds : reqs[r].op = "verify" /\ reqs[r].resp.status = OK
    /\ \E r \in ReqIds :
          /\ reqs[r].op = "register" /\ reqs[r].dberr = ""
          /\ reqs[r].resp.status = ServerError
          /\ RowOf(reqs[r].email) # {}

\* C17 (as stated): a Register, VerifyEmail or Login whose statement failed
\* in the persistence layer (other than on a unique key) is answered 500
\* with a generic body, not the driver's message, carries no session token
\* and has sent no mail, before and after its answer.
C17_StorageFailureSurfaced ==
    \A r \in ReqIds :
        reqs[r].op \in {"register", "verify", "login"}
            /\ reqs[r].dberr = "ER_OTHER" =>
          /\ reqs[r].pc \in {"callback", "done"}
          /\ reqs[r].resp.token = NoToken
          /\ MailsOf(r) = {}
          /\ reqs[r].pc = "done" =>
                /\ reqs[r].resp.status = ServerError
                /\ reqs[r].resp.body # reqs[r].dberr

\* Requests one of whose promises was rejected with no handler: a Login
\* dropped in its SELECT callback, and an api Register whose sendMail
\* promise, called without callback or catch, was rejected.
Unhandled ==
    {r \in ReqIds : reqs[r].pc = "fault"}
        \cup {mails[i].req :
                 i \in {j \in 1..Len(mails) :
                           app = "api" /\ mails[j].status = "failed"}}

\* C18 (as stated): whatever the hasher, the store and the mail transport
\* do, no Register, VerifyEmail or Login request is left without a response
\* by a fault, no failure of a collaborator escapes unhandled, and a request
\* holds an answer exactly when its handler has finished, after which it
\* takes no further step.
C18_ExactlyOneResponse ==
    \A r \in ReqIds :
        reqs[r].op \in {"register", "verify", "login"} =>
            /\ reqs[r].pc # "fault"
            /\ r \notin Unhandled
            /\ reqs[r].pc = "done" <=> reqs[r].resp # NoResp

\* The tokens successful Logins have returned.
SessionTokens ==
    {reqs[r].resp.token :
        r \in {q \in ReqIds : reqs[q].op = "login"
                                 /\ reqs[q].resp.token.parts = 3}}

\* C19 (as stated): a /chat request that authenticateToken has let through
\* (req.user is set) carries a token returned by a successful Login, whose
\* account was verified when the token was minted; a request presenting a
\* token that Register mailed is refused 403 and does not get through.
C19_SessionTokensOnly ==
    \A r \in ReqIds :
        reqs[r].op = "chat" =>
          /\ reqs[r].user # NoClaims =>
                /\ reqs[r].token \in SessionTokens
                /\ \E q \in ReqIds :
                      /\ reqs[q].op = "login"
                      /\ reqs[q].resp.token = reqs[r].token
                      /\ reqs[q].rows # <<>> /\ reqs[q].rows[1].verified
          /\ (\E i \in 1..Len(mails) : mails[i].token = reqs[r].token) =>
                /\ reqs[r].user = NoClaims
                /\ reqs[r].pc = "done" /\ reqs[r].resp.status = Forbidden
====
